---- MODULE Spec2Model ----
(***************************************************************************)
(* Bulk retrieval of hourly weather observations.                          *)
(*                                                                         *)
(* Part I models src/met_norway_solar_2.py: download_all_stations drives   *)
(* download_station_in_batches, which splits [start_date, end_date) into   *)
(* windows and calls get_weather_data_with_retry for each one.             *)
(* Part II models src/snow.py: run_collection fetches one Frost table and  *)
(* one Open-Meteo snow table per station, merges them and writes a file.   *)
(*                                                                         *)
(* Time is counted in hours.  A table (pandas DataFrame) is a sequence of  *)
(* rows; the empty DataFrame is the empty sequence.  A row carries its     *)
(* timestamp and one value standing for the element columns.               *)
(***************************************************************************)
EXTENDS Integers, Sequences, FiniteSets

(***************************************************************************)
(* Program constants                                                       *)
(***************************************************************************)
\* MAX_RETRIES of the configuration block.
MAX_RETRIES == 3
\* Hours of timedelta(days=1).
DayHours == 24

(***************************************************************************)
(* Bounds of the model                                                     *)
(***************************************************************************)
\* The configured range lies within 0 .. MaxRangeDays days.
MaxRangeDays == 3
\* batch_size_days is drawn from -1 .. MaxBatchDays.
MaxBatchDays == 2
\* datetime.min lies MinDateDays days before hour 0: stepping below it
\* raises OverflowError, as datetime arithmetic does below year 1.
MinDateDays == 1

\* The configured stations, in dict order (two of STATIONS).
Stations == <<"Tingvoll", "Brusdalen">>

Min(a, b) == IF a <= b THEN a ELSE b

\* Python's floor division a // b for b # 0.
FloorDiv(a, b) == IF b > 0 THEN a \div b ELSE (-a) \div (-b)

\* The observations an upstream response may carry: two readings of hour 0
\* that differ in their value, and one reading of hour 1.
Row == {[timestamp |-> 0, value |-> 1],
        [timestamp |-> 0, value |-> 2],
        [timestamp |-> 1, value |-> 1]}

\* The "data" arrays of a 200 answer: nothing, one observation, hour 1
\* listed before hour 0, or hour 0 listed twice.
DataArrays ==
    {<<>>} \cup {<<r>> : r \in Row}
    \cup {<<[timestamp |-> 1, value |-> 1], [timestamp |-> 0, value |-> 1]>>,
          <<[timestamp |-> 0, value |-> 1], [timestamp |-> 0, value |-> 2]>>}

\* The instants the configuration may name: every half day of the range,
\* the start within the first day.
Dates == {h \in 0 .. (MaxRangeDays * DayHours) : h % 12 = 0}
StartDates == {h \in Dates : h < DayHours}

(***************************************************************************)
(* The upstream: one answer to one HTTP request.  raised = TRUE is a       *)
(* transport failure (requests.get raises); otherwise status is the HTTP   *)
(* status and data the "data" array of the body (empty when absent).       *)
(***************************************************************************)
StatusCodes == {200, 400, 404, 412, 429, 500}

TransportError == [raised |-> TRUE, status |-> 0, data |-> <<>>]

Responses ==
    {TransportError}
    \cup {[raised |-> FALSE, status |-> s, data |-> <<>>] : s \in StatusCodes}
    \cup {[raised |-> FALSE, status |-> 200, data |-> d] : d \in DataArrays}

(***************************************************************************)
(* Table helpers                                                           *)
(***************************************************************************)
\* df.sort_values('timestamp').reset_index(drop=True).  Rows of equal
\* timestamp keep their order, as numpy's sort leaves them on short arrays:
\* row i goes to the place that counts the rows of an earlier timestamp and
\* the rows of its own timestamp up to itself.
sort_values(df) ==
    LET place(i) ==
            Cardinality({j \in 1 .. Len(df) :
                            \/ df[j].timestamp < df[i].timestamp
                            \/ df[j].timestamp = df[i].timestamp /\ j <= i})
    IN [k \in 1 .. Len(df) |-> df[CHOOSE i \in 1 .. Len(df) : place(i) = k]]

\* A variant of drop_duplicates with keep='last'.
drop_duplicates_KeepLast(df) ==
    LET keep == {i \in 1 .. Len(df) :
                    \A j \in (i + 1) .. Len(df) : df[j].timestamp # df[i].timestamp}
    IN [k \in 1 .. Cardinality(keep) |->
           df[CHOOSE i \in keep : Cardinality({j \in keep : j <= i}) = k]]

\* df.drop_duplicates(subset=['timestamp'], keep='first'): the rows with no
\* row of the same timestamp before them, in their order.
drop_duplicates(df) ==
    LET keep == {i \in 1 .. Len(df) :
                    \A j \in 1 .. (i - 1) : df[j].timestamp # df[i].timestamp}
    IN [k \in 1 .. Cardinality(keep) |->
           df[CHOOSE i \in keep : Cardinality({j \in keep : j <= i}) = k]]

\* pd.concat(all_batches, ignore_index=True).
concat(batches) ==
    LET F[i \in 0 .. Len(batches)] ==
            IF i = 0 THEN <<>> ELSE F[i - 1] \o batches[i]
    IN F[Len(batches)]

\* The upstream observations as parse_frost_data turns them into a table:
\* one record per observation, then sorted by timestamp.
parse_frost_data(observations) == sort_values(observations)

\* get_weather_data on one upstream answer: the call either raises or
\* returns a table.  200 with observations is parsed; 200 without, 404 and
\* 412 return the empty table; every other status raises, and so does a
\* transport failure inside requests.get.
get_weather_data(resp) ==
    IF resp.raised THEN [raised |-> TRUE, df |-> <<>>]
    ELSE IF resp.status = 200
         THEN IF Len(resp.data) > 0
              THEN [raised |-> FALSE, df |-> parse_frost_data(resp.data)]
              ELSE [raised |-> FALSE, df |-> <<>>]
    ELSE IF resp.status = 404 THEN [raised |-> FALSE, df |-> <<>>]
    ELSE IF resp.status = 412 THEN [raised |-> FALSE, df |-> <<>>]
    ELSE [raised |-> TRUE, df |-> <<>>]

\* validate_data: the cleaned table (the statistics are console output).
validate_data(df) ==
    IF df = <<>> THEN df ELSE sort_values(drop_duplicates(df))

(***************************************************************************)
(* Part I: src/met_norway_solar_2.py                                       *)
(***************************************************************************)
VARIABLES
    start_date, end_date,   \* START_DATE, END_DATE handed to the run
    batch_size_days,        \* BATCH_SIZE_DAYS
    max_retries,            \* max_retries of get_weather_data_with_retry
    pc,                     \* where the run stands
    idx,                    \* idx of the station loop (from 1)
    all_data,               \* station name -> cleaned table
    successful, failed,     \* the counters of download_all_stations
    current_start,          \* locals of download_station_in_batches
    current_end,
    all_batches,
    attempt,                \* attempt of the retry loop
    windows,                \* history: the windows requested for this station
    got,                    \* history: df_batch of each of those windows
    retry,                  \* history: calls, sleeps and outcomes of the
                            \*   current (or last) retry invocation
    processed,              \* history: stations whose iteration has begun
    df_station,             \* history: what download_station_in_batches
    outcome,                \*   returned for this station, or that it raised
    pacings,                \* history: the pacing sleeps taken for this station
    pauses,                 \* history: the sleeps taken between stations
    first,                  \* history: the download of the first station,
                            \*   kept where the run is set up to keep it
    df_frost,               \* run_collection (Part II): the Frost table
    df_snow,                \* run_collection: the Open-Meteo table
    written                 \* run_collection: station name -> table saved

config == <<start_date, end_date, batch_size_days, max_retries>>
vars == <<start_date, end_date, batch_size_days, max_retries, pc, idx,
          all_data, successful, failed, current_start, current_end,
          all_batches, attempt, windows, got, retry, processed,
          df_station, outcome, pacings, pauses, first, df_frost, df_snow,
          written>>

\* What only run_collection touches.
snowVars == <<df_frost, df_snow, written>>

\* The outcome of one underlying fetch, as the history records it.
Kind(resp) ==
    IF resp.raised THEN "transport"
    ELSE IF resp.status = 200 THEN (IF Len(resp.data) > 0 THEN "rows" ELSE "empty")
    ELSE IF resp.status = 400 THEN "s400"
    ELSE IF resp.status = 404 THEN "s404"
    ELSE IF resp.status = 412 THEN "s412"
    ELSE IF resp.status = 429 THEN "s429"
    ELSE "s500"

\* The outcomes the specification calls retryable: throttling, a server
\* error, a transport failure.
Transient == {"s429", "s500", "transport"}

\* No first download on record; keep tells whether one is to be kept.
NoFirst(keep) == [keep |-> keep, windows |-> <<>>, got |-> <<>>, df |-> <<>>]

FreshRetry == [calls |-> 0, sleeps |-> 0, kinds |-> "none", transient |-> TRUE]

\* kinds is the outcome shared by every fetch of the invocation, or "mixed";
\* transient tells whether every fetch of the invocation failed transiently.
Fetched(r, resp) ==
    [r EXCEPT !.calls = @ + 1,
              !.kinds = IF @ \in {"none", Kind(resp)} THEN Kind(resp) ELSE "mixed",
              !.transient = @ /\ Kind(resp) \in Transient]

\* A variant of timedelta that takes its argument for hours.
timedelta_Hours(n) == n

\* timedelta(days=n), in hours.
timedelta(n) == n * DayHours

\* datetime.min: date arithmetic below it raises OverflowError.
DateMin == 0 - timedelta(MinDateDays)

\* total_batches of download_station_in_batches (lines 275-276); it is only
\* printed, but evaluating it divides by batch_size_days.
total_batches(s, e, b) == FloorDiv(FloorDiv(e - s, DayHours), b) + 1

\* A variant of LoopContinues that also goes round when nothing is left.
LoopContinues_Inclusive(cs, e) == cs <= e

\* The while condition of download_station_in_batches.
LoopContinues(cs, e) == cs < e

\* A variant of SleepsBeforeNext that never sleeps.
SleepsBeforeNext_Never(cs, e) == FALSE

\* Line 300: a pacing sleep follows the round unless it was the last.
SleepsBeforeNext(cs, e) == cs < e

\* A variant of BatchEnd that does not clamp the last window to end_date.
BatchEnd_Unclamped(cs, e, b) == cs + timedelta(b)

\* current_end of the window that starts at cs.
BatchEnd(cs, e, b) == Min(cs + timedelta(b), e)

\* A variant of RetryAgain that sleeps and retries after every failure.
RetryAgain_Always(a, m) == TRUE

\* A variant of RetryAgain that allows one attempt too many.
RetryAgain_OneMore(a, m) == a < m

\* The retry loop goes round again after a failed attempt.
RetryAgain(a, m) == a < m - 1

\* An attempt ends the retry loop with its table.
ReturnsTable(o) == ~o.raised /\ o.df # <<>>

\* df_combined: the batches concatenated, with the station columns added.
\* (standardize_column_names renames the element columns, for which value
\* stands; station_id is set beside station_name and follows it.)
Combine(batches, name) ==
    LET df == concat(batches)
    IN [i \in 1 .. Len(df) |->
           [timestamp |-> df[i].timestamp, value |-> df[i].value,
            station_name |-> name]]

\* all_data[name] = table.
Put(d, name, table) ==
    [n \in (DOMAIN d) \cup {name} |-> IF n = name THEN table ELSE d[n]]

EmptyDict == [n \in {} |-> <<>>]

\* Before the first station of either script.
InitLocals ==
    /\ idx = 1
    /\ all_data = EmptyDict
    /\ successful = 0
    /\ failed = 0
    /\ current_start = 0
    /\ current_end = 0
    /\ all_batches = <<>>
    /\ attempt = 0
    /\ windows = <<>>
    /\ got = <<>>
    /\ retry = FreshRetry
    /\ processed = <<>>
    /\ df_station = <<>>
    /\ outcome = "none"
    /\ pacings = 0
    /\ pauses = 0
    /\ first = NoFirst(FALSE)
    /\ df_frost = <<>>
    /\ df_snow = <<>>
    /\ written = EmptyDict

\* download_all_stations(STATIONS, START_DATE, END_DATE, ELEMENTS) is called.
InitDownload ==
    /\ start_date \in StartDates
    /\ end_date \in Dates
    /\ batch_size_days \in -1 .. MaxBatchDays
    /\ max_retries \in 1 .. MAX_RETRIES
    /\ pc = "station"
    /\ InitLocals

\* The counters download_all_stations keeps (lines 332-333) and reports
\* when the run is over (line 368).
RunCounters == [successful |-> successful, failed |-> failed]

\* Those of them that are raised once for a station (lines 355, 357, 361).
StationCounters == {"successful", "failed"}

\* A variant of Finish that stores whatever table came back, rows or not.
Finish_EmptyCounts(df, exc) ==
    /\ IF ~exc
       THEN /\ all_data' = Put(all_data, Stations[idx], validate_data(df))
            /\ successful' = successful + 1
            /\ failed' = failed
       ELSE /\ all_data' = all_data
            /\ successful' = successful
            /\ failed' = failed + 1
    /\ pc' = IF idx < Len(Stations) THEN "station_pause" ELSE "done"
    /\ df_station' = df
    /\ outcome' = IF exc THEN "raised" ELSE "returned"

\* A variant of Finish that counts a station as successful before it looks
\* whether the table has rows.
Finish_CountsBeforeTest(df, exc) ==
    /\ all_data' = IF ~exc /\ df # <<>>
                   THEN Put(all_data, Stations[idx], validate_data(df))
                   ELSE all_data
    /\ successful' = IF exc THEN successful ELSE successful + 1
    /\ failed' = IF ~exc /\ df # <<>> THEN failed ELSE failed + 1
    /\ pc' = IF idx < Len(Stations) THEN "station_pause" ELSE "done"
    /\ df_station' = df
    /\ outcome' = IF exc THEN "raised" ELSE "returned"

\* A variant of Finish in which an exception ends the station loop.
Finish_StopOnError(df, exc) ==
    /\ IF ~exc /\ df # <<>>
       THEN /\ all_data' = Put(all_data, Stations[idx], validate_data(df))
            /\ successful' = successful + 1
            /\ failed' = failed
       ELSE /\ all_data' = all_data
            /\ successful' = successful
            /\ failed' = failed + 1
    /\ pc' = IF idx < Len(Stations) /\ ~exc THEN "station_pause" ELSE "done"
    /\ df_station' = df
    /\ outcome' = IF exc THEN "raised" ELSE "returned"

\* Lines 345-365 of download_all_stations: the station's table df is
\* validated and stored, or the station is counted as failed; exc is the
\* except branch.  Then the loop pauses unless this was the last station.
Finish(df, exc) ==
    /\ IF ~exc /\ df # <<>>
       THEN /\ all_data' = Put(all_data, Stations[idx], validate_data(df))
            /\ successful' = successful + 1
            /\ failed' = failed
       ELSE /\ all_data' = all_data
            /\ successful' = successful
            /\ failed' = failed + 1
    /\ pc' = IF idx < Len(Stations) THEN "station_pause" ELSE "done"
    /\ df_station' = df
    /\ outcome' = IF exc THEN "raised" ELSE "returned"

\* Lines 303-318: download_station_in_batches returns.
ReturnStation(batches) ==
    Finish(IF Len(batches) > 0 THEN Combine(batches, Stations[idx]) ELSE <<>>, FALSE)

\* Lines 278-287: the while test and the start of one round, up to the call
\* of get_weather_data_with_retry.
LoopHead(cs, batches, wins, keep) ==
    IF LoopContinues(cs, end_date)
    THEN IF cs + timedelta(batch_size_days) < DateMin
         THEN /\ Finish(<<>>, TRUE)
              /\ current_end' = current_end
              /\ windows' = wins
              /\ attempt' = attempt
              /\ retry' = keep
         ELSE /\ current_end' = BatchEnd(cs, end_date, batch_size_days)
              /\ windows' = Append(wins, <<cs, BatchEnd(cs, end_date, batch_size_days)>>)
              /\ attempt' = 0
              /\ retry' = FreshRetry
              /\ pc' = "fetch"
              /\ df_station' = <<>>
              /\ outcome' = "running"
              /\ UNCHANGED <<all_data, successful, failed>>
    ELSE /\ ReturnStation(batches)
         /\ current_end' = current_end
         /\ windows' = wins
         /\ attempt' = attempt
         /\ retry' = keep

\* A variant of StartStation in which all_batches outlives the call, as a
\* list shared between the calls would.
StartStation_KeepsBatches ==
    /\ pc = "station"
    /\ processed' = Append(processed, Stations[idx])
    /\ current_start' = start_date
    /\ all_batches' = all_batches
    /\ got' = <<>>
    /\ pacings' = 0
    /\ IF batch_size_days = 0
       THEN /\ Finish(<<>>, TRUE)
            /\ current_end' = current_end
            /\ windows' = <<>>
            /\ attempt' = attempt
            /\ retry' = FreshRetry
       ELSE LoopHead(start_date, all_batches, <<>>, FreshRetry)
    /\ UNCHANGED <<config, idx, first, pauses, snowVars>>

\* One iteration of the station loop begins: download_station_in_batches is
\* called and runs up to its first fetch.
StartStation ==
    /\ pc = "station"
    /\ processed' = Append(processed, Stations[idx])
    /\ current_start' = start_date
    /\ all_batches' = <<>>
    /\ got' = <<>>
    /\ pacings' = 0
    /\ IF batch_size_days = 0
       THEN \* total_batches raises ZeroDivisionError
            /\ Finish(<<>>, TRUE)
            /\ current_end' = current_end
            /\ windows' = <<>>
            /\ attempt' = attempt
            /\ retry' = FreshRetry
       ELSE LoopHead(start_date, <<>>, <<>>, FreshRetry)
    /\ UNCHANGED <<config, idx, first, pauses, snowVars>>

\* A variant of RetryReturns that gives the station up at a failed window.
RetryReturns_StopOnFailure(dfb, r) ==
    LET batches == IF Len(dfb) > 0 THEN Append(all_batches, dfb) ELSE all_batches
    IN /\ all_batches' = batches
       /\ got' = Append(got, dfb)
       /\ current_start' = current_end
       /\ retry' = r
       /\ IF SleepsBeforeNext(current_end, end_date) /\ Len(dfb) > 0
          THEN /\ pc' = "pacing"
               /\ UNCHANGED <<all_data, successful, failed, df_station, outcome>>
          ELSE ReturnStation(batches)
       /\ UNCHANGED <<current_end, attempt, windows>>

\* Lines 289-301 once the retry loop has returned dfb: the rest of the
\* round, up to the pacing sleep or, without one, on to the while test.
RetryReturns(dfb, r) ==
    LET batches == IF Len(dfb) > 0 THEN Append(all_batches, dfb) ELSE all_batches
    IN /\ all_batches' = batches
       /\ got' = Append(got, dfb)
       /\ current_start' = current_end
       /\ IF SleepsBeforeNext(current_end, end_date)
          THEN /\ pc' = "pacing"
               /\ retry' = r
               /\ UNCHANGED <<all_data, successful, failed, df_station, outcome,
                              current_end, attempt, windows>>
          ELSE LoopHead(current_end, batches, windows, r)

\* A variant of Fetch without the except clause of the retry loop: what
\* get_weather_data raises ends download_station_in_batches.
Fetch_Uncaught ==
    /\ pc = "fetch"
    /\ \E resp \in Responses :
          IF get_weather_data(resp).raised
          THEN /\ Finish(<<>>, TRUE)
               /\ retry' = Fetched(retry, resp)
               /\ UNCHANGED <<all_batches, got, current_start, current_end,
                              attempt, windows>>
          ELSE IF ReturnsTable(get_weather_data(resp))
               THEN RetryReturns(get_weather_data(resp).df, Fetched(retry, resp))
               ELSE IF RetryAgain(attempt, max_retries)
                    THEN /\ pc' = "backoff"
                         /\ retry' = Fetched(retry, resp)
                         /\ UNCHANGED <<all_data, successful, failed, df_station,
                                        outcome, all_batches, got, current_start,
                                        current_end, attempt, windows>>
                    ELSE RetryReturns(<<>>, Fetched(retry, resp))
    /\ UNCHANGED <<config, idx, pacings, first, processed, pauses, snowVars>>

\* One attempt of get_weather_data_with_retry: one call of get_weather_data,
\* answered by the upstream with one of answers.
FetchFrom(answers) ==
    /\ pc = "fetch"
    /\ \E resp \in answers :
          IF ReturnsTable(get_weather_data(resp))
          THEN RetryReturns(get_weather_data(resp).df, Fetched(retry, resp))
          ELSE IF RetryAgain(attempt, max_retries)
               THEN /\ pc' = "backoff"
                    /\ retry' = Fetched(retry, resp)
                    /\ UNCHANGED <<all_data, successful, failed, df_station,
                                   outcome, all_batches, got, current_start,
                                   current_end, attempt, windows>>
               ELSE RetryReturns(<<>>, Fetched(retry, resp))
    /\ UNCHANGED <<config, idx, pacings, first, processed, pauses, snowVars>>

\* An attempt against an upstream that may answer anything.
Fetch == FetchFrom(Responses)

\* time.sleep(RETRY_DELAY), then the next attempt.
Backoff ==
    /\ pc = "backoff"
    /\ attempt' = attempt + 1
    /\ retry' = [retry EXCEPT !.sleeps = @ + 1]
    /\ pc' = "fetch"
    /\ UNCHANGED <<config, idx, all_data, successful, failed, current_start,
                   current_end, all_batches, windows, got, processed,
                   df_station, outcome, pacings, first, pauses, snowVars>>

\* time.sleep(REQUEST_DELAY) between two windows, then the next round.
Pacing ==
    /\ pc = "pacing"
    /\ pacings' = pacings + 1
    /\ LoopHead(current_start, all_batches, windows, retry)
    /\ UNCHANGED <<config, idx, current_start, all_batches, got, first, processed,
                   pauses, snowVars>>

\* time.sleep(REQUEST_DELAY) between two stations.
StationPause ==
    /\ pc = "station_pause"
    /\ idx' = idx + 1
    /\ pc' = "station"
    /\ first' = IF first.keep /\ idx = 1
                THEN [first EXCEPT !.windows = windows, !.got = got, !.df = df_station]
                ELSE first
    /\ UNCHANGED <<config, all_data, successful, failed, current_start,
                   current_end, all_batches, attempt, windows, got, retry,
                   processed, df_station, outcome, pacings, snowVars>>
    /\ pauses' = pauses + 1

(***************************************************************************)
(* Part II: src/snow.py                                                    *)
(***************************************************************************)
\* An optional number: <<>> is None / NaN, <<v>> is the number v.
None == <<>>
Some(v) == <<v>>

\* One hour of the Open-Meteo "hourly" arrays: time[i] and snow_depth[i],
\* the depth in metres or null.
SnowPoint == {[timestamp |-> 0, snow_depth |-> Some(1)],
              [timestamp |-> 1, snow_depth |-> None],
              [timestamp |-> 2, snow_depth |-> Some(0)]}

\* The "hourly" arrays of a 200 answer: up to two hours.
HourlyArrays == UNION {[1 .. k -> SnowPoint] : k \in 0 .. 2}

SnowResponses ==
    {[raised |-> TRUE, status |-> 0, hourly |-> <<>>]}
    \cup {[raised |-> FALSE, status |-> s, hourly |-> <<>>] : s \in {429, 500}}
    \cup {[raised |-> FALSE, status |-> 200, hourly |-> h] : h \in HourlyArrays}

\* get_frost_hourly_data on one upstream answer: the observations in the
\* order received, neither sorted nor de-duplicated; the empty table on a
\* non-200 status and on any exception (an empty "data" array ends in one:
\* the frame built from it has no timestamp column).
get_frost_hourly_data(resp) ==
    IF resp.raised THEN <<>>
    ELSE IF resp.status = 200 THEN resp.data
    ELSE <<>>

\* snow_depth_meters * 100.
ToCentimetres(m) == IF m = None THEN None ELSE Some(m[1] * 100)

\* get_open_meteo_snow on one upstream answer.
get_open_meteo_snow(resp) ==
    IF resp.raised THEN <<>>
    ELSE IF resp.status = 200
         THEN [i \in 1 .. Len(resp.hourly) |->
                  [timestamp |-> resp.hourly[i].timestamp,
                   snow_depth_cm |-> ToCentimetres(resp.hourly[i].snow_depth)]]
    ELSE <<>>

\* The rows pd.merge(how='left') makes of one left row: one per right row of
\* the same timestamp, in the right table's order, or one without a value.
JoinRow(row, right) ==
    LET F[i \in 0 .. Len(right)] ==
            IF i = 0 THEN <<>>
            ELSE IF right[i].timestamp = row.timestamp
                 THEN Append(F[i - 1], [timestamp |-> row.timestamp,
                                        value |-> row.value,
                                        snow_depth_cm |-> right[i].snow_depth_cm])
                 ELSE F[i - 1]
    IN IF F[Len(right)] = <<>>
       THEN <<[timestamp |-> row.timestamp, value |-> row.value,
               snow_depth_cm |-> None]>>
       ELSE F[Len(right)]

\* pd.merge(df_frost, df_snow, on='timestamp', how='left').
merge_left(left, right) ==
    LET F[i \in 0 .. Len(left)] ==
            IF i = 0 THEN <<>> ELSE F[i - 1] \o JoinRow(left[i], right)
    IN F[Len(left)]

\* df_final when the snow table is empty: snow_depth_cm = 0.0 on every row.
fill_snow(left) ==
    [i \in 1 .. Len(left) |->
        [timestamp |-> left[i].timestamp, value |-> left[i].value,
         snow_depth_cm |-> Some(0)]]

\* Lines 171-178 of run_collection.
df_final(frost, snow) ==
    IF snow = <<>> THEN fill_snow(frost) ELSE merge_left(frost, snow)

\* run_collection(STATIONS, START_DATE, END_DATE, FROST_HOURLY_ELEMENTS) is
\* called; the range only parameterises the two requests.
InitCollection ==
    /\ start_date = 0
    /\ end_date = DayHours
    /\ batch_size_days = 1
    /\ max_retries = 1
    /\ pc = "frost"
    /\ InitLocals

Init == InitDownload \/ InitCollection

\* The loop of run_collection moves on to the next station, if any.
NextStation ==
    /\ idx' = idx + 1
    /\ pc' = IF idx < Len(Stations) THEN "frost" ELSE "collected"

downloadVars == <<all_data, successful, failed, current_start, current_end,
                  all_batches, attempt, windows, got, retry, df_station, outcome,
                  pacings, first>>

\* Line 162: the Frost request of one station.
FrostRequest ==
    /\ pc = "frost"
    /\ \E resp \in Responses : df_frost' = get_frost_hourly_data(resp)
    /\ processed' = Append(processed, Stations[idx])
    /\ pc' = "meteo"
    /\ UNCHANGED <<config, idx, df_snow, written, pauses, downloadVars>>

\* A variant of MeteoRequest without the test for an empty Frost table.
MeteoRequest_NoSkip ==
    /\ pc = "meteo"
    /\ \E resp \in SnowResponses :
          /\ df_snow' = get_open_meteo_snow(resp)
          /\ written' = Put(written, Stations[idx],
                             df_final(df_frost, get_open_meteo_snow(resp)))
          /\ pc' = "polite"
          /\ idx' = idx
    /\ UNCHANGED <<config, df_frost, processed, pauses, downloadVars>>

\* Lines 165-189: the Open-Meteo request, then the station is skipped or
\* its table is merged and saved.
MeteoRequest ==
    /\ pc = "meteo"
    /\ \E resp \in SnowResponses :
          /\ df_snow' = get_open_meteo_snow(resp)
          /\ IF df_frost = <<>>
             THEN NextStation /\ UNCHANGED written
             ELSE /\ written' = Put(written, Stations[idx],
                                     df_final(df_frost, get_open_meteo_snow(resp)))
                  /\ pc' = "polite"
                  /\ idx' = idx
    /\ UNCHANGED <<config, df_frost, processed, pauses, downloadVars>>

\* Line 191: time.sleep(1) after a station was saved.
Polite ==
    /\ pc = "polite"
    /\ NextStation
    /\ pauses' = pauses + 1
    /\ UNCHANGED <<config, df_frost, df_snow, written, processed, downloadVars>>

Next ==
    \/ StartStation
    \/ Fetch
    \/ Backoff
    \/ Pacing
    \/ StationPause
    \/ FrostRequest
    \/ MeteoRequest
    \/ Polite

Spec == Init /\ [][Next]_vars

\* download_all_stations over one or two windows of a day, the download of
\* the first station kept for comparison with that of the second.
InitRerun ==
    /\ start_date = 0
    /\ end_date \in {timedelta(1), timedelta(2)}
    /\ batch_size_days = 1
    /\ max_retries \in {1, 2}
    /\ pc = "station"
    /\ idx = 1
    /\ all_data = EmptyDict
    /\ successful = 0
    /\ failed = 0
    /\ current_start = 0
    /\ current_end = 0
    /\ all_batches = <<>>
    /\ attempt = 0
    /\ windows = <<>>
    /\ got = <<>>
    /\ retry = FreshRetry
    /\ processed = <<>>
    /\ df_station = <<>>
    /\ outcome = "none"
    /\ pacings = 0
    /\ pauses = 0
    /\ first = NoFirst(TRUE)
    /\ df_frost = <<>>
    /\ df_snow = <<>>
    /\ written = EmptyDict

NextDownload ==
    \/ StartStation
    \/ Fetch
    \/ Backoff
    \/ Pacing
    \/ StationPause

RerunSpec == InitRerun /\ [][NextDownload]_vars

\* The body of a 200 answer to referencetime = s/e at timeresolutions PT1H
\* from an upstream that holds one observation for every hour: the hours
\* from s up to, not including, e.
HourlyRows(s, e) ==
    [i \in 1 .. (e - s) |-> [timestamp |-> s + i - 1, value |-> 1]]

HourlyAnswer(s, e) == [raised |-> FALSE, status |-> 200, data |-> HourlyRows(s, e)]

\* An attempt against that upstream: get_weather_data(station_id,
\* current_start, current_end, elements).
FetchHourly == FetchFrom({HourlyAnswer(current_start, current_end)})

\* download_all_stations against the upstream that has every hour.
InitHourly ==
    /\ start_date \in StartDates
    /\ end_date \in Dates
    /\ batch_size_days \in 1 .. MaxBatchDays
    /\ max_retries \in 1 .. MAX_RETRIES
    /\ pc = "station"
    /\ InitLocals

NextHourly ==
    \/ StartStation
    \/ FetchHourly
    \/ Pacing
    \/ StationPause

HourlySpec == InitHourly /\ [][NextHourly]_vars

(***************************************************************************)
(* Properties                                                              *)
(***************************************************************************)
\* The preconditions the specification puts on the range and the batch size.
ValidRange == batch_size_days >= 1 /\ start_date < end_date

\* download_station_in_batches has ended for station idx.
StationOver == pc \in {"station_pause", "done"}

\* The last call of get_weather_data_with_retry has returned.
RetryOver ==
    /\ pc \in {"pacing", "station_pause", "station", "done"}
    /\ retry.calls > 0
    /\ Len(got) = Len(windows)

Span(w) == w[2] - w[1]

\* The (timestamp, value) pairs of a table, in order.
Readings(df) ==
    [i \in 1 .. Len(df) |-> [timestamp |-> df[i].timestamp, value |-> df[i].value]]

IsSortedByTimestamp(df) ==
    \A i \in 1 .. Len(df) - 1 : df[i].timestamp <= df[i + 1].timestamp

HasUniqueTimestamps(df) ==
    \A i, j \in 1 .. Len(df) : i # j => df[i].timestamp # df[j].timestamp

\* The windows of got that came back empty.
FailedWindows == {i \in 1 .. Len(got) : got[i] = <<>>}

\* The windows a chunker is to produce for [s, e) with spans of b days.
RECURSIVE Chunks(_, _, _)
Chunks(s, e, b) ==
    IF s >= e THEN <<>>
    ELSE IF s + b * DayHours >= e THEN <<<<s, e>>>>
    ELSE <<<<s, s + b * DayHours>>>> \o Chunks(s + b * DayHours, e, b)

\* C1: for start < end and a batch size of at least one day, the windows
\* requested for a station start at start_date, each starts where the one
\* before ended, none is empty or longer than the batch size, all but the
\* last requested span exactly the batch size, and once the station is over
\* the last window ends at end_date.
C1_WindowsCoverRange ==
    ValidRange =>
        /\ \A i \in 1 .. Len(windows) :
               /\ windows[i][1] < windows[i][2]
               /\ Span(windows[i]) <= timedelta(batch_size_days)
               /\ windows[i][2] <= end_date
        /\ \A i \in 1 .. Len(windows) - 1 :
               /\ windows[i + 1][1] = windows[i][2]
               /\ Span(windows[i]) = timedelta(batch_size_days)
        /\ Len(windows) > 0 => windows[1][1] = start_date
        /\ StationOver =>
               /\ Len(windows) > 0
               /\ windows[Len(windows)][2] = end_date

\* A station whose range took three windows, the last one shorter.
C1_Witness ==
    /\ ValidRange
    /\ pc = "done"
    /\ Len(windows) = 3
    /\ Span(windows[3]) < timedelta(batch_size_days)
    /\ windows[3][2] = end_date

\* C2: when every fetch of a retry invocation failed transiently (server
\* error, throttling or transport exception), the invocation made exactly
\* max_retries fetches and returned the empty table.
C2_TransientExhaustsRetries ==
    (RetryOver /\ retry.transient) =>
        /\ retry.calls = max_retries
        /\ got[Len(got)] = <<>>

\* Three transient failures of different kinds, and the invocation over.
C2_Witness ==
    /\ RetryOver
    /\ retry.transient
    /\ retry.kinds = "mixed"
    /\ max_retries = MAX_RETRIES
    /\ retry.calls = MAX_RETRIES

\* C3: as long as the upstream has answered every fetch of the invocation
\* with 412, there was exactly one fetch and no backoff sleep is taken.
C3_TooLargeNotRetried ==
    retry.kinds = "s412" =>
        /\ retry.calls = 1
        /\ retry.sleeps = 0
        /\ pc # "backoff"

\* C4: as long as every fetch of the invocation came back with
\* 200 and no data, there was exactly one fetch and no backoff sleep is taken.
C4_EmptyReturnsAtOnce ==
    retry.kinds = "empty" =>
        /\ retry.calls = 1
        /\ retry.sleeps = 0
        /\ pc # "backoff"

\* C5: as long as the upstream has answered every fetch of the invocation
\* with 400, there was exactly one fetch and no backoff sleep is taken.
C5_ClientErrorNotRetried ==
    retry.kinds = "s400" =>
        /\ retry.calls = 1
        /\ retry.sleeps = 0
        /\ pc # "backoff"

\* C6: with a batch size below one day or start >= end no window is
\* produced, no fetch is made, and the call ends by raising.
C6_InvalidRangeRejected ==
    ~ValidRange /\ pc \notin {"frost", "meteo", "polite", "collected"} =>
        /\ windows = <<>>
        /\ retry.calls = 0
        /\ pc # "fetch"
        /\ StationOver => outcome = "raised"

\* C7: for a valid range, when download_station_in_batches has ended it has
\* returned (not raised), the windows requested are all the windows of the
\* range in order, whichever of them failed, and the table returned holds
\* the rows of the windows that yielded rows, in window order, and no others.
C7_FailedWindowDoesNotAbort ==
    (ValidRange /\ StationOver) =>
        /\ outcome = "returned"
        /\ windows = Chunks(start_date, end_date, batch_size_days)
        /\ Len(got) = Len(windows)
        /\ Readings(df_station) = concat(got)

\* Window 2 of 3 failed; the table holds the rows of windows 1 and 3.
C7_Witness ==
    /\ ValidRange
    /\ StationOver
    /\ Len(windows) = 3
    /\ FailedWindows = {2}
    /\ Readings(df_station) = got[1] \o got[3]

\* For station idx exactly one window failed and the others yielded rows.
OneWindowFailed ==
    /\ ValidRange
    /\ StationOver
    /\ Len(got) = Len(windows)
    /\ Len(got) >= 2
    /\ Cardinality(FailedWindows) = 1

\* C8: a station exactly one of whose windows failed is counted as
\* succeeded, with a table that has rows in all_data, and the counters of
\* the run record that one window failure: a counter that is not raised per
\* station reads the number of the station's failed windows.
C8_WindowFailureRecorded ==
    OneWindowFailed =>
        /\ Stations[idx] \in DOMAIN all_data
        /\ all_data[Stations[idx]] # <<>>
        /\ successful = Cardinality(DOMAIN all_data)
        /\ \E c \in (DOMAIN RunCounters) \ StationCounters :
               RunCounters[c] = Cardinality(FailedWindows)

\* C9: every table of the result map of download_all_stations and every
\* table saved by run_collection has unique timestamps in non-decreasing
\* order.
C9_TablesUniqueSorted ==
    /\ \A n \in DOMAIN all_data :
           HasUniqueTimestamps(all_data[n]) /\ IsSortedByTimestamp(all_data[n])
    /\ \A n \in DOMAIN written :
           HasUniqueTimestamps(written[n]) /\ IsSortedByTimestamp(written[n])

\* C10: the stations are taken up in the configured order, each once,
\* whatever became of the stations before, and when the run is over every
\* station has been taken up; in download_all_stations each of them was
\* counted once.
C10_EveryStationProcessed ==
    /\ Len(processed) <= Len(Stations)
    /\ processed = SubSeq(Stations, 1, Len(processed))
    /\ pc \in {"done", "collected"} => processed = Stations
    /\ pc = "done" => successful + failed = Len(Stations)

\* Every window of the first station failed, and the second station was
\* still downloaded.
C10_Witness ==
    /\ pc = "done"
    /\ processed = Stations
    /\ failed = 1
    /\ Stations[1] \notin DOMAIN all_data
    /\ Stations[2] \in DOMAIN all_data

\* The run is over: download_all_stations or run_collection has returned.
Terminated == pc \in {"done", "collected"}

\* The windows still to request from cs on: the least n with
\* cs + n * timedelta(batch_size_days) >= end_date.
WindowsLeft(cs) ==
    FloorDiv(end_date - cs + timedelta(batch_size_days) - 1, timedelta(batch_size_days))

\* The steps one window takes at most: max_retries fetches, the backoff
\* sleeps between them, and the pacing sleep after it.
WindowSteps == 2 * max_retries

\* The steps one station takes at most, its start and the pause after it
\* included.
StationSteps == 2 + WindowsLeft(start_date) * WindowSteps

\* A bound on the steps the run has left.
Rank ==
    LET rest == (Len(Stations) - idx) * StationSteps + 1
        left == 3 * (Len(Stations) - idx + 1)
    IN CASE pc = "station" -> rest + StationSteps - 1
         [] pc = "fetch" ->
                rest + WindowsLeft(current_end) * WindowSteps + 2 * (max_retries - attempt)
         [] pc = "backoff" ->
                rest + WindowsLeft(current_end) * WindowSteps
                     + 2 * (max_retries - attempt) - 1
         [] pc = "pacing" -> rest + WindowsLeft(current_start) * WindowSteps + 1
         [] pc = "station_pause" -> rest
         [] pc = "frost" -> left
         [] pc = "meteo" -> left - 1
         [] pc = "polite" -> left - 2
         [] OTHER -> 0

\* C11: for start < end and a batch size of at least one day the run
\* terminates under every sequence of fetch outcomes: no retry invocation
\* makes more than max_retries fetches, every step of the run lowers a
\* natural-number bound on the steps left, and the run never stops before
\* the station loop has ended.
C11_RunTerminates ==
    /\ [](ValidRange =>
             /\ retry.calls <= max_retries
             /\ Rank >= 0
             /\ Terminated \/ ENABLED Next)
    /\ [][ValidRange => Rank' < Rank]_vars

\* Two stations over, the last window after max_retries failed fetches.
C11_Witness ==
    /\ ValidRange
    /\ pc = "done"
    /\ Len(windows) = 3
    /\ max_retries = MAX_RETRIES
    /\ retry.calls = MAX_RETRIES
    /\ Len(processed) = Len(Stations)

\* C12: get_weather_data_with_retry returns a table for every window
\* requested, whatever the fetches did: with a valid range no exception ever
\* reaches download_station_in_batches or the station loop, every window
\* requested so far but the one in progress has its returned table, the
\* empty table comes back only after max_retries fetches, and rows come
\* back only from a fetch that delivered rows.
C12_RetryAlwaysReturns ==
    ValidRange =>
        /\ outcome # "raised"
        /\ pc \in {"fetch", "backoff"} => Len(got) = Len(windows) - 1
        /\ pc \in {"pacing", "station_pause", "done"} =>
               /\ Len(got) = Len(windows)
               /\ retry.calls \in 1 .. max_retries
               /\ got[Len(got)] = <<>> =>
                      retry.calls = max_retries /\ retry.kinds # "rows"
               /\ got[Len(got)] # <<>> => retry.kinds \in {"rows", "mixed"}
        /\ pc = "station" /\ idx > 1 => Len(got) = Len(windows)

\* Every attempt of an invocation raised, the empty table came back and the
\* window loop goes on.
C12_Witness ==
    /\ ValidRange
    /\ pc = "pacing"
    /\ retry.kinds = "transport"
    /\ retry.calls = MAX_RETRIES
    /\ got[Len(got)] = <<>>
    /\ Len(got) = Len(windows)

\* C13: a pacing sleep lies between any two consecutive window requests of
\* a station: window k + 1 is requested only after k pacing sleeps have been
\* taken for the station, whatever window k returned, and while a window is
\* being fetched there is exactly one sleep for each window before it.
C13_PacingBetweenWindows ==
    /\ Len(windows) <= pacings + 1
    /\ pc \in {"fetch", "backoff"} => pacings = Len(windows) - 1

\* The second window is being fetched after the first one failed.
C13_Witness ==
    /\ pc = "fetch"
    /\ Len(windows) = 2
    /\ got = <<<<>>>>
    /\ pacings = 1

\* C14: when every window of a station came back without rows,
\* download_station_in_batches returns the empty table, the station is
\* missing from all_data and it is counted in failed: the stations so far
\* are split between the two counters and successful counts all_data.
C14_AllWindowsFailed ==
    (/\ ValidRange
     /\ StationOver
     /\ FailedWindows = 1 .. Len(windows)) =>
        /\ df_station = <<>>
        /\ outcome = "returned"
        /\ Stations[idx] \notin DOMAIN all_data
        /\ successful = Cardinality(DOMAIN all_data)
        /\ successful + failed = idx
        /\ failed >= 1

\* The first station is over after three windows that all failed.
C14_Witness ==
    /\ ValidRange
    /\ pc = "station_pause"
    /\ idx = 1
    /\ Len(windows) = 3
    /\ FailedWindows = {1, 2, 3}
    /\ failed = 1
    /\ successful = 0

\* run_collection has just saved the table of station idx.
Saved == pc = "polite"

\* The table run_collection saved for station idx.
Output == written[Stations[idx]]

Timestamps(df) == {df[i].timestamp : i \in 1 .. Len(df)}

\* How many rows of df carry timestamp t.
Occurrences(df, t) == Cardinality({i \in 1 .. Len(df) : df[i].timestamp = t})

\* C15: the table saved for a station has exactly as many rows as the Frost
\* table it was merged from, whatever the Open-Meteo table held.
C15_MergeKeepsRowCount ==
    Saved => Len(Output) = Len(df_frost)

\* C16: in the saved table a row carries the snow depth of an Open-Meteo row
\* of the same timestamp if there is one, and no snow depth otherwise.
C16_SnowFromMatchingRow ==
    Saved =>
        \A i \in 1 .. Len(Output) :
            LET same == {j \in 1 .. Len(df_snow) :
                            df_snow[j].timestamp = Output[i].timestamp}
            IN IF same = {}
               THEN Output[i].snow_depth_cm = None
               ELSE \E j \in same : Output[i].snow_depth_cm = df_snow[j].snow_depth_cm

\* C17: when Open-Meteo failed or delivered nothing for a station that has
\* Frost rows, every saved row has its snow depth absent, never zero.
C17_NoSnowLeftAbsent ==
    (Saved /\ df_snow = <<>>) =>
        \A i \in 1 .. Len(Output) : Output[i].snow_depth_cm = None

\* C18: in the saved table every timestamp of the Frost table occurs at most
\* once, and every timestamp that occurs is one of the Frost table.
C18_PrimaryOnceSecondaryNever ==
    Saved =>
        /\ \A ts \in Timestamps(df_frost) : Occurrences(Output, ts) <= 1
        /\ Timestamps(Output) \subseteq Timestamps(df_frost)

\* C19: a station whose Frost table is empty is skipped, whatever Open-Meteo
\* returned: nothing is merged or saved for it, so a table is saved only with
\* Frost rows at hand and no saved table is empty.
C19_EmptyPrimarySkipped ==
    /\ Saved => df_frost # <<>>
    /\ (pc \in {"frost", "collected"} /\ idx > 1 /\ df_frost = <<>>) =>
           Stations[idx - 1] \notin DOMAIN written
    /\ \A n \in DOMAIN written : written[n] # <<>>

\* The first station had no Frost rows and two hours of snow depth, and
\* nothing was saved for it.
C19_Witness ==
    /\ pc = "frost"
    /\ idx = 2
    /\ df_frost = <<>>
    /\ Len(df_snow) = 2
    /\ written = EmptyDict

\* C20: the download of the second station is a second run of the download
\* of the first over the same range: it requests the same windows, and when
\* the windows came back with the same tables as in the first run, it
\* returns the same rows in the same order, and the cleaned table of both
\* stations has the same rows in the same order.
C20_RerunSameTable ==
    (first.keep /\ idx = 2 /\ StationOver) =>
        /\ windows = first.windows
        /\ got = first.got =>
               /\ Readings(df_station) = Readings(first.df)
               /\ Stations[1] \in DOMAIN all_data <=> Stations[2] \in DOMAIN all_data
               /\ Stations[1] \in DOMAIN all_data =>
                      Readings(all_data[Stations[1]]) = Readings(all_data[Stations[2]])

\* Both stations got the same two tables for their two windows, with rows
\* out of order and an hour twice.
C20_Witness ==
    /\ first.keep
    /\ pc = "done"
    /\ got = first.got
    /\ Len(got) = 2
    /\ Len(got[1]) = 2
    /\ got[2] # <<>>
    /\ ~IsSortedByTimestamp(df_station)
    /\ Stations[2] \in DOMAIN all_data

\* The least n with n * b >= a, for b > 0.
CeilDiv(a, b) == FloorDiv(a + b - 1, b)

\* C21: against an upstream that returns one row for every hour of each
\* window, a station over a range of end_date - start_date hours (24 * D for
\* D whole days) with a batch size of B days takes ceil(24 * D / 24 * B)
\* window requests, each fetched once, and its table in all_data has one row
\* for each hour of the range, the hours from start_date on in ascending
\* order.
C21_HourlySourceFullTable ==
    (ValidRange /\ StationOver) =>
        /\ Len(windows) = CeilDiv(end_date - start_date, DayHours * batch_size_days)
        /\ retry.calls = 1
        /\ Stations[idx] \in DOMAIN all_data
        /\ Len(all_data[Stations[idx]]) = end_date - start_date
        /\ \A i \in 1 .. Len(all_data[Stations[idx]]) :
               all_data[Stations[idx]][i].timestamp = start_date + i - 1

\* Three whole days in batches of two: two windows, of two days and of one,
\* and 72 rows.
C21_Witness ==
    /\ pc = "done"
    /\ start_date = 0
    /\ end_date = 3 * DayHours
    /\ batch_size_days = 2
    /\ Len(windows) = 2
    /\ Span(windows[2]) = DayHours
    /\ Len(all_data[Stations[2]]) = 3 * DayHours

\* The first window of the station that came back with timestamp ts.
FirstWindow(ts) ==
    CHOOSE i \in 1 .. Len(got) :
        /\ ts \in Timestamps(got[i])
        /\ \A j \in 1 .. (i - 1) : ts \notin Timestamps(got[j])

\* The first row of df with timestamp ts.
FirstRow(df, ts) ==
    df[CHOOSE i \in 1 .. Len(df) :
           /\ df[i].timestamp = ts
           /\ \A j \in 1 .. (i - 1) : df[j].timestamp # ts]

\* C22: the table stored for a station has every timestamp that any of its
\* windows came back with, each once and no other, and the row kept for a
\* timestamp is the one of the first window that came back with it.
C22_EarliestWindowKept ==
    (StationOver /\ Stations[idx] \in DOMAIN all_data) =>
        LET table == all_data[Stations[idx]]
            stamps == UNION {Timestamps(got[i]) : i \in 1 .. Len(got)}
        IN /\ Timestamps(table) = stamps
           /\ \A ts \in stamps :
                  /\ Occurrences(table, ts) = 1
                  /\ FirstRow(table, ts).value = FirstRow(got[FirstWindow(ts)], ts).value

\* Hour 0 came back from the first window with value 2 and from the second
\* with value 1, and the stored row has value 2.
C22_Witness ==
    /\ pc = "done"
    /\ Len(got) = 2
    /\ got[1] = <<[timestamp |-> 0, value |-> 2]>>
    /\ got[2] = <<[timestamp |-> 0, value |-> 1]>>
    /\ Stations[2] \in DOMAIN all_data
    /\ Len(all_data[Stations[2]]) = 1
    /\ all_data[Stations[2]][1].value = 2

\* download_all_stations is running or has returned.
Downloading == pc \in {"station", "fetch", "backoff", "pacing", "station_pause", "done"}

\* C23: in download_all_stations every station whose iteration is over is
\* counted once, as successful or as failed, so at the end the two counters
\* add up to the number of stations; the keys of all_data are the stations
\* counted as successful, a station being one of them exactly when its
\* download returned rows without raising; and no table of all_data is
\* empty.
C23_CountersMatchResult ==
    Downloading =>
        /\ successful + failed = (IF StationOver THEN idx ELSE idx - 1)
        /\ pc = "done" => successful + failed = Len(Stations)
        /\ successful = Cardinality(DOMAIN all_data)
        /\ DOMAIN all_data \subseteq {processed[i] : i \in 1 .. Len(processed)}
        /\ StationOver =>
               (Stations[idx] \in DOMAIN all_data
                    <=> (outcome = "returned" /\ df_station # <<>>))
        /\ \A n \in DOMAIN all_data : all_data[n] # <<>>

\* Every station raised (batch_size_days = 0), and both are counted failed.
C23_Witness ==
    /\ pc = "done"
    /\ outcome = "raised"
    /\ batch_size_days = 0
    /\ failed = Len(Stations)
    /\ successful = 0
    /\ all_data = EmptyDict

\* C24: a backoff sleep is taken only between two attempts of a retry
\* invocation: a fetch is under way with one sleep for each attempt before
\* it, a sleep follows only a failed attempt that was not the
\* max_retries-th, and an invocation that has returned after n fetches took
\* n - 1 sleeps.
C24_SleepsBetweenAttempts ==
    /\ pc = "fetch" => retry.sleeps = retry.calls
    /\ pc = "backoff" =>
           /\ retry.sleeps = retry.calls - 1
           /\ retry.calls \in 1 .. (max_retries - 1)
           /\ retry.kinds # "rows"
    /\ RetryOver => retry.sleeps = retry.calls - 1

\* An invocation that got rows at its second attempt of three: one sleep.
C24_Witness ==
    /\ RetryOver
    /\ max_retries = MAX_RETRIES
    /\ retry.calls = 2
    /\ retry.sleeps = 1
    /\ got[Len(got)] # <<>>

\* C25: the first request for a station other than the first comes after a
\* sleep taken since the last request for the station before it, whatever
\* became of that station: when the k-th station is taken up, k - 1 sleeps
\* between stations have been taken.
C25_PauseBetweenStations ==
    Len(processed) <= pauses + 1
====
